---- MODULE Spec2Model ----
(***************************************************************************)
(* Model of ibis/connection.py: SQLConnection (table, sql, execute,        *)
(* _build_ast_ensure_limit, _fetch_from_cursor) and ImpalaConnection       *)
(* (_connect, _fetchall, _execute, create_table, drop_table, schema        *)
(* probes), together with the module function _set_limit.                  *)
(*                                                                         *)
(* The driver (impala.dbapi) is the environment: a session is alive or     *)
(* dead, con.cursor() raises DatabaseError exactly on a dead session,      *)
(* connect() yields a session that is alive or already dead, and           *)
(* cursor.execute() accepts or rejects the text.                           *)
(***************************************************************************)
EXTENDS Integers, Sequences, FiniteSets, TLC

\* ------------------------------------------------------------------ bounds
MaxRetries == 3
MaxUnits == 2
MaxCols == 2
MaxRaceRetries == 2

\* --------------------------------------------------------- program values
\* retries=3 in the signatures of _fetchall and _execute
DefaultRetries == 3
\* Python's None for an integer-valued argument (default_limit, query.limit)
None == -1
\* Python's None for a string-valued argument (database)
NoneStr == "<None>"
\* a local name that was never bound (cursor after the except branch)
Unbound == 0

\* threads that may hold a reference to one ImpalaConnection
Callers == {1, 2}
\* the single owner thread of the serialized specification
MainCaller == 1

Limits == {5, 10}

\* '{}'.format(k) for the integers the model uses
Format(k) ==
  CASE k = 0 -> "0"
    [] k = 5 -> "5"
    [] k = 10 -> "10"
    [] OTHER -> "?"

VARIABLES
  con,          \* self.con: the live driver session [id, alive]
  nextSession,  \* number of sessions db.connect has created
  options,      \* ibis.config options.sql.default_limit
  stack,        \* per caller: the frames of _execute / _fetchall
  op,           \* per caller: the facade operation in progress
  status,       \* per caller: "idle", "running", "returned" or the exception
  result,       \* per caller: the value the last operation returned
  log,          \* per caller: the driver operations of the current operation
  last,         \* per caller: the previous operation exhausted its retries
  planner,      \* a call of _build_ast_ensure_limit and its repetition
  mapper        \* a call of _adapt_types on a drawn cursor.description

vars ==
  <<con, nextSession, options, stack, op, status, result, log, last, planner,
    mapper>>

\* ------------------------------------------------------------ log helpers
Event(ev, id, ok, text) == [ev |-> ev, id |-> id, ok |-> ok, text |-> text]

RECURSIVE LastIndex(_, _, _)
\* greatest i <= n with s[i].ev = ev, or 0
LastIndex(s, ev, n) ==
  IF n = 0 THEN 0
  ELSE IF s[n].ev = ev THEN n ELSE LastIndex(s, ev, n - 1)

\* the events of the innermost top-level _execute call
CurLog(c) ==
  LET k == LastIndex(log[c], "call", Len(log[c]))
  IN  IF k = 0 THEN log[c] ELSE SubSeq(log[c], k, Len(log[c]))

Events(s, ev) == {i \in 1..Len(s) : s[i].ev = ev}
Count(s, ev) == Cardinality(Events(s, ev))
OkEvents(s, ev) == {i \in 1..Len(s) : s[i].ev = ev /\ s[i].ok}
FailEvents(s, ev) == {i \in 1..Len(s) : s[i].ev = ev /\ ~s[i].ok}

\* identity of the next cursor object a caller obtains
NewCursor(c) == Cardinality(OkEvents(log[c], "cursor")) + 1

\* ----------------------------------------------------------- result values
NoResult == [kind |-> "None", cur |-> 0, handled |-> FALSE,
             names |-> <<>>, types |-> <<>>]
CursorResult(cur) == [NoResult EXCEPT !.kind = "cursor", !.cur = cur]
RowsResult(cur) == [NoResult EXCEPT !.kind = "rows", !.cur = cur]

\* --------------------------------------------------------------- frames
\* no session: the value of self.con between lines 115 and 116 only
NoSession == [id |-> 0, alive |-> FALSE]

\* fresh is the value db.connect has returned to line 120 and the
\* assignment has not yet stored
Frame(fn, query, retries, pc) ==
  [fn |-> fn, query |-> query, retries |-> retries, pc |-> pc,
   cursor |-> Unbound, fresh |-> NoSession]

Top(c) == stack[c][Len(stack[c])]
Running(c) == status[c] = "running" /\ stack[c] # <<>>
SetTop(c, f) == [stack EXCEPT ![c] = [@ EXCEPT ![Len(@)] = f]]
Logged(c, e) == [log EXCEPT ![c] = Append(@, e)]

\* the retry guard off by one
CanRetry_late(retries) == retries > 1

\* line 131: if retries > 0
CanRetry(retries) == retries > 0

\* an exception leaves every frame of the call (no handler catches it)
Raise(c, exc) ==
  /\ stack' = [stack EXCEPT ![c] = <<>>]
  /\ status' = [status EXCEPT ![c] = exc]
  /\ result' = [result EXCEPT ![c] = NoResult]

\* ------------------------------------------------- expressions and plans
\* A source expression: whether it is an ir.TableExpr, the statement units
\* its compilation yields (with the limit each one specifies itself), and
\* the limits added around it by expr.limit(k).
Part(kind, limit, handler) ==
  [kind |-> kind, limit |-> limit, handler |-> handler]

Parts ==
  {Part("Select", l, h) : l \in Limits \cup {None}, h \in BOOLEAN}
    \cup {Part("DDL", None, FALSE)}

RECURSIVE SeqsUpTo(_, _)
\* the sequences over S of length 1..n
SeqsUpTo(S, n) ==
  IF n = 0 THEN {}
  ELSE LET shorter == SeqsUpTo(S, n - 1)
       IN  {<<x>> : x \in S} \cup shorter
             \cup {Append(s, x) : s \in shorter, x \in S}

Exprs ==
  {[table |-> t, parts |-> p, limits |-> <<>>] :
     t \in BOOLEAN, p \in SeqsUpTo(Parts, MaxUnits)}

\* expr.limit(k)
Limit(expr, k) == [expr EXCEPT !.limits = Append(@, k)]

UnitName(i) == CASE i = 1 -> "q1" [] i = 2 -> "q2" [] i = 3 -> "q3"
                 [] OTHER -> "qn"

\* the limit a compiled SELECT unit carries: its own, else the one added
\* around the expression, which every SELECT unit of the plan shares
UnitLimit(part, limits) ==
  IF part.limit # None THEN part.limit
  ELSE IF limits # <<>> THEN limits[Len(limits)] ELSE None

\* sql.build_ast(expr): the ordered statement units and the shared context
build_ast(expr) ==
  [queries |->
     [i \in 1..Len(expr.parts) |->
        [kind |-> expr.parts[i].kind,
         limit |-> IF expr.parts[i].kind = "Select"
                     THEN UnitLimit(expr.parts[i], expr.limits) ELSE None,
         result_handler |-> expr.parts[i].handler,
         name |-> UnitName(i)]],
   context |-> <<"context">>]

\* query.compile()
compile(query) ==
  IF query.kind = "Select"
    THEN <<"SELECT", query.name>>
           \o (IF query.limit # None
                 THEN <<"LIMIT", Format(query.limit)>> ELSE <<>>)
    ELSE <<"DDL", query.name>>

\* line 93: the guard of the limit loop
EnsuresLimit(expr, default_limit) == default_limit # None /\ expr.table

\* the isinstance test forgotten: any unit without a limit counts
LacksLimit_anyKind(query) == query.limit = None

\* the limit test forgotten: every SELECT unit counts
LacksLimit_always(query) == query.kind = "Select"

\* lines 95-98: the unit is a ddl.Select and query.limit is None
LacksLimit(query) == query.kind = "Select" /\ query.limit = None

\* line 99: k = options.sql.default_limit
InjectedLimit(default_limit) == options

RECURSIVE EnsureLoop(_, _, _, _)
\* lines 94-101: the loop runs over the queries of the first compilation
EnsureLoop(queries, i, acc, k) ==
  IF i > Len(queries) THEN acc
  ELSE IF LacksLimit(queries[i])
    THEN LET e == Limit(acc.expr, k)
         IN  EnsureLoop(queries, i + 1,
                        [expr |-> e, ast |-> build_ast(e),
                         compiles |-> acc.compiles + 1], k)
    ELSE EnsureLoop(queries, i + 1, acc, k)

\* SQLConnection._build_ast_ensure_limit; compiles counts the build_ast calls
_build_ast_ensure_limit(expr, default_limit) ==
  LET ast == build_ast(expr)
      acc == [expr |-> expr, ast |-> ast, compiles |-> 1]
  IN  IF EnsuresLimit(expr, default_limit)
        THEN EnsureLoop(ast.queries, 1, acc, InjectedLimit(default_limit))
        ELSE acc

\* ---------------------------------------------------------- statement text
\* line 190: 'SELECT * FROM {} LIMIT 0'.format(name)
TableProbe(name) == <<"SELECT * FROM", name, "LIMIT", Format(0)>>

\* line 233: '{}\nLIMIT {}'.format(query, k)
_set_limit(query, k) == query \o <<"LIMIT", Format(k)>>

\* the storage format ddl.CTAS uses when none is passed to it
CTASDefaultFormat == "parquet"

\* ddl.CTAS(table_name, select, context, database, format, overwrite).compile()
CTAS(table_name, select, context, database, format, overwrite) ==
  <<"CREATE TABLE", IF overwrite THEN "OVERWRITE" ELSE "IF NOT EXISTS",
    database, table_name, "STORED AS", format, "AS">>
    \o context \o compile(select)

\* ddl.DropTable(table_name, database, must_exist).compile()
DropTable(table_name, database, must_exist) ==
  <<"DROP TABLE", IF must_exist THEN "MUST EXIST" ELSE "IF EXISTS",
    database, table_name>>

\* ------------------------------------------------------------ type mapping
Column(name, type, precision, scale) ==
  [name |-> name, type |-> type, precision |-> precision, scale |-> scale]

\* lines 218-229
_impala_type_mapping ==
  [t \in {"boolean", "tinyint", "smallint", "int", "bigint", "float",
          "double", "string", "timestamp", "decimal"} |->
     CASE t = "tinyint" -> "int8"
       [] t = "smallint" -> "int16"
       [] t = "int" -> "int32"
       [] t = "bigint" -> "int64"
       [] OTHER -> t]

\* str.lower() on the driver type names the model uses
lower_asis(s) == s

lower(s) ==
  CASE s = "INT" -> "int"
    [] s = "BIGINT" -> "bigint"
    [] s = "Decimal" -> "decimal"
    [] s = "DECIMAL" -> "decimal"
    [] s = "STRING" -> "string"
    [] s = "Timestamp" -> "timestamp"
    [] s = "VARCHAR" -> "varchar"
    [] OTHER -> s

LogicalType(tag, precision, scale) ==
  [tag |-> tag, precision |-> precision, scale |-> scale]

\* line 208 with dict.get and a default in place of the subscript
TypeLookup_default(typename) ==
  [found |-> TRUE,
   typename |-> IF typename \in DOMAIN _impala_type_mapping
                  THEN _impala_type_mapping[typename] ELSE "string"]

\* line 208: the subscript of the mapping table; a missing key is a KeyError
TypeLookup(typename) ==
  IF typename \in DOMAIN _impala_type_mapping
    THEN [found |-> TRUE, typename |-> _impala_type_mapping[typename]]
    ELSE [found |-> FALSE, typename |-> NoneStr]

\* line 208: the lookup raises KeyError for a name the table lacks
Known(col) == TypeLookup(lower(col.type)).found

\* lines 207-214: the logical type of one column
AdaptColumn(col) ==
  LET typename == TypeLookup(lower(col.type)).typename
  IN  IF typename = "decimal"
        THEN LogicalType("decimal", col.precision, col.scale)
        ELSE LogicalType(typename, None, None)

\* lines 203-215: the loop over the columns; the KeyError of line 208 leaves
\* the function without a return value, whatever was appended before
RECURSIVE AdaptLoop(_, _, _, _)
AdaptLoop(descr, i, names, ibis_types) ==
  IF i > Len(descr)
    THEN [raised |-> FALSE, names |-> names, types |-> ibis_types]
    ELSE IF ~Known(descr[i])
           THEN [raised |-> TRUE, names |-> <<>>, types |-> <<>>]
           ELSE AdaptLoop(descr, i + 1, Append(names, descr[i].name),
                          Append(ibis_types, AdaptColumn(descr[i])))

\* ImpalaConnection._adapt_types: raises at the first unknown column
_adapt_types(descr) == AdaptLoop(descr, 1, <<>>, <<>>)

\* cursor.description of the probes the serialized specification runs
ProbeDescrs ==
  {<<Column("a", "INT", None, None)>>,
   <<Column("a", "int", None, None), Column("b", "DECIMAL", 9, 2)>>,
   <<Column("a", "string", None, None), Column("b", "VARCHAR", None, None)>>}

\* ------------------------------------------------------- facade operations
Op(name, pc, queries, i) ==
  [name |-> name, pc |-> pc, queries |-> queries, i |-> i,
   output |-> NoResult, cursor |-> Unbound, retries |-> DefaultRetries,
   args |-> <<>>]

IdleOp == Op("none", "done", <<>>, 0)

DirectTexts == {<<"SELECT", "1">>}
TableNames == {"t"}
Databases == {NoneStr, "x"}
\* table() is also given the empty string, which is not None
TableDatabases == {NoneStr, "x", ""}
Formats == {"parquet", "text"}
RawQueries == {<<"SELECT a,b FROM t">>, <<"SELECT a,b FROM t", "LIMIT", "5">>}

\* the expressions the serialized specification executes
ExecParts ==
  {Part("Select", None, FALSE), Part("Select", 5, TRUE),
   Part("DDL", None, FALSE)}

ExecExprs ==
  {[table |-> TRUE, parts |-> p, limits |-> <<>>] :
     p \in SeqsUpTo(ExecParts, MaxUnits)}
    \cup {[table |-> FALSE, parts |-> <<Part("Select", None, FALSE)>>,
            limits |-> <<>>]}

\* the expressions create_table is given
CtasExprs ==
  {[table |-> TRUE, parts |-> <<Part("Select", None, FALSE)>>,
    limits |-> <<>>],
   [table |-> TRUE,
    parts |-> <<Part("Select", 5, TRUE), Part("DDL", None, FALSE)>>,
    limits |-> <<>>]}

\* a caller may begin an operation when its previous one has ended
CanBegin(c) == status[c] # "running"

\* Session identities are names for the objects db.connect returned. When no
\* other caller is inside an operation nothing refers to the discarded
\* sessions any more, and the live one is named 1 again.
Renamed(c) ==
  IF \A d \in Callers \ {c} : status[d] # "running"
    THEN /\ con' = [con EXCEPT !.id = 1]
         /\ nextSession' = 1
    ELSE UNCHANGED <<con, nextSession>>

\* the caller enters self._execute(query, retries=retries)
Enter_execute(c, query, retries, events) ==
  /\ stack' = [stack EXCEPT
                 ![c] = <<Frame("_execute", query, retries, "cursor")>>]
  /\ log' = [log EXCEPT
               ![c] = Append(events, Event("call", con'.id, TRUE, query))]

Begin(c, o) ==
  /\ op' = [op EXCEPT ![c] = o]
  /\ status' = [status EXCEPT ![c] = "running"]
  /\ last' = [last EXCEPT ![c] = status[c] = "DatabaseError"]
  /\ result' = [result EXCEPT ![c] = NoResult]

\* a direct call of _execute(query, retries) or _fetchall(query, retries)
call_execute(c) ==
  \E query \in DirectTexts, retries \in 0..MaxRetries :
    /\ CanBegin(c)
    /\ Renamed(c)
    /\ Begin(c, [Op("_execute", "call", <<>>, 0) EXCEPT !.retries = retries])
    /\ Enter_execute(c, query, retries, <<>>)
    /\ UNCHANGED <<options, planner, mapper>>

call_fetchall(c) ==
  \E query \in DirectTexts, retries \in 0..MaxRetries :
    /\ CanBegin(c)
    /\ Renamed(c)
    /\ Begin(c, [Op("_fetchall", "call", <<>>, 0) EXCEPT !.retries = retries])
    /\ stack' = [stack EXCEPT
                   ![c] = <<Frame("_fetchall", query, retries, "call")>>]
    /\ log' = [log EXCEPT ![c] = <<Event("call", con'.id, TRUE, query)>>]
    /\ UNCHANGED <<options, planner, mapper>>

\* a truthiness test instead of the None test
RejectsDatabase_truthy(database) == database \notin {NoneStr, ""}

\* line 44: if database is not None
RejectsDatabase(database) == database # NoneStr

\* SQLConnection.table, lines 44-47 up to the call of _execute
table(c) ==
  \E name \in TableNames, database \in TableDatabases :
    /\ CanBegin(c)
    /\ Renamed(c)
    /\ last' = [last EXCEPT ![c] = status[c] = "DatabaseError"]
    /\ IF RejectsDatabase(database)
         THEN /\ op' = [op EXCEPT ![c] = [Op("table", "done", <<>>, 0)
                                            EXCEPT !.args = <<name, database>>]]
              /\ Raise(c, "NotImplementedError")
              /\ log' = [log EXCEPT ![c] = <<>>]
         ELSE /\ op' = [op EXCEPT ![c] = [Op("table", "call", <<>>, 0)
                                            EXCEPT !.args = <<name, database>>]]
              /\ status' = [status EXCEPT ![c] = "running"]
              /\ result' = [result EXCEPT ![c] = NoResult]
              /\ Enter_execute(c, TableProbe(name), DefaultRetries, <<>>)
    /\ UNCHANGED <<options, planner, mapper>>

\* SQLConnection.sql, lines 64-65 up to the call of _execute
sql(c) ==
  \E query \in RawQueries :
    /\ CanBegin(c)
    /\ Renamed(c)
    /\ Begin(c, Op("sql", "call", <<>>, 0))
    /\ Enter_execute(c, _set_limit(query, 0), DefaultRetries, <<>>)
    /\ UNCHANGED <<options, planner, mapper>>

\* SQLConnection.execute, lines 74-81 up to the first call of _execute
execute(c) ==
  \E expr \in ExecExprs, default_limit \in {None, 10} :
    LET built == _build_ast_ensure_limit(expr, default_limit)
    IN  /\ CanBegin(c)
        /\ Renamed(c)
        /\ Begin(c, Op("execute", "call", built.ast.queries, 1))
        /\ Enter_execute(c, compile(built.ast.queries[1]), DefaultRetries,
                         <<>>)
        /\ UNCHANGED <<options, planner, mapper>>

\* ImpalaConnection.create_table, lines 161-168 up to the call of _execute
create_table(c) ==
  \E table_name \in TableNames, expr \in CtasExprs, database \in Databases,
     format \in Formats, overwrite \in BOOLEAN :
    LET ast == build_ast(expr)
        select == ast.queries[1]
        query == CTAS(table_name, select, ast.context, database,
                      CTASDefaultFormat, overwrite)
    IN  /\ CanBegin(c)
        /\ Renamed(c)
        /\ Begin(c, [Op("create_table", "call", ast.queries, 1) EXCEPT
                       !.args = <<table_name, database, format,
                                  IF overwrite THEN "True" ELSE "False">>])
        /\ Enter_execute(c, query, DefaultRetries, <<>>)
        /\ UNCHANGED <<options, planner, mapper>>

\* ImpalaConnection.drop_table, lines 184-187 up to the call of _execute
drop_table(c) ==
  \E table_name \in TableNames, database \in Databases,
     must_exist \in BOOLEAN :
    /\ CanBegin(c)
    /\ Renamed(c)
    /\ Begin(c, [Op("drop_table", "call", <<>>, 0) EXCEPT
                   !.args = <<table_name, database,
                              IF must_exist THEN "True" ELSE "False">>])
    /\ Enter_execute(c, DropTable(table_name, database, must_exist),
                     DefaultRetries, <<>>)
    /\ UNCHANGED <<options, planner, mapper>>

\* ------------------------------------------------ ImpalaConnection._execute
\* lines 128-135: cursor = self.con.cursor(), and the except branch
_execute_cursor(c) ==
  /\ Running(c)
  /\ Top(c).fn = "_execute" /\ Top(c).pc = "cursor"
  /\ IF con.alive
       THEN /\ stack' = SetTop(c, [Top(c) EXCEPT !.pc = "submit",
                                                !.cursor = NewCursor(c)])
            /\ log' = Logged(c, Event("cursor", NewCursor(c), TRUE, <<>>))
            /\ UNCHANGED <<status, result>>
       ELSE /\ log' = Logged(c, Event("cursor", con.id, FALSE, <<>>))
            /\ IF CanRetry(Top(c).retries)
                 THEN /\ stack' = SetTop(c, [Top(c) EXCEPT !.pc = "connect"])
                      /\ UNCHANGED <<status, result>>
                 ELSE Raise(c, "DatabaseError")
  /\ UNCHANGED <<con, nextSession, options, op, last, planner, mapper>>

\* line 120 emptying the slot before db.connect is called
HandleDuringConnect_cleared(handle) == NoSession

\* line 120: while db.connect runs, self.con still refers to the session it
\* referred to before
HandleDuringConnect(handle) == handle

\* lines 118-120, called from line 132: the right-hand side of
\* self.con = db.connect(**self.params); db.connect may itself raise, which
\* no handler of _execute catches
_connect(c) ==
  /\ Running(c)
  /\ Top(c).fn = "_execute" /\ Top(c).pc = "connect"
  /\ \E outcome \in {"alive", "dead", "raise"} :
       IF outcome = "raise"
         THEN /\ log' = Logged(c, Event("connect_error", 0, FALSE, <<>>))
              /\ Raise(c, "ConnectError")
              /\ UNCHANGED <<con, nextSession>>
         ELSE /\ con' = HandleDuringConnect(con)
              /\ log' = Logged(c, Event("connect", nextSession + 1,
                                        outcome = "alive", <<>>))
              /\ nextSession' = nextSession + 1
              /\ stack' = SetTop(c, [Top(c) EXCEPT
                                       !.pc = "store",
                                       !.fresh = [id |-> nextSession + 1,
                                                  alive |-> outcome = "alive"]])
              /\ UNCHANGED <<status, result>>
  /\ UNCHANGED <<options, op, last, planner, mapper>>

\* line 120: the assignment to self.con, one store of a reference
_connect_store(c) ==
  /\ Running(c)
  /\ Top(c).fn = "_execute" /\ Top(c).pc = "store"
  /\ con' = Top(c).fresh
  /\ stack' = SetTop(c, [Top(c) EXCEPT !.pc = "retry"])
  /\ UNCHANGED <<nextSession, options, op, status, result, log, last,
                 planner, mapper>>

\* line 133 handing the budget on as it is
RetryBudget_kept(retries) == retries

\* line 133: the budget of the recursive attempt, retries=retries - 1
RetryBudget(retries) == retries - 1

\* line 133: self._fetchall(query, retries=retries - 1)
_execute_retry(c) ==
  /\ Running(c)
  /\ Top(c).fn = "_execute" /\ Top(c).pc = "retry"
  /\ stack' = [stack EXCEPT
                 ![c] = Append([@ EXCEPT ![Len(@)].pc = "wait"],
                               Frame("_fetchall", Top(c).query,
                                     RetryBudget(Top(c).retries), "call"))]
  /\ UNCHANGED <<con, nextSession, options, op, status, result, log, last,
                 planner, mapper>>

\* line 123: cursor = self._execute(query, retries=retries)
_fetchall(c) ==
  /\ Running(c)
  /\ Top(c).fn = "_fetchall" /\ Top(c).pc = "call"
  /\ stack' = [stack EXCEPT
                 ![c] = Append([@ EXCEPT ![Len(@)].pc = "wait"],
                               Frame("_execute", Top(c).query,
                                     Top(c).retries, "cursor"))]
  /\ UNCHANGED <<con, nextSession, options, op, status, result, log, last,
                 planner, mapper>>

\* a rejected statement handled like a dead session: reconnect and retry
Rejected_retry(c) ==
  /\ stack' = SetTop(c, [Top(c) EXCEPT !.pc = "connect"])
  /\ UNCHANGED <<status, result>>

\* line 137 is outside the try block: a rejected statement propagates
Rejected(c) == Raise(c, "SqlError")

\* line 137: cursor.execute(query); the name cursor is unbound when the
\* frame came through the except branch
_execute_submit(c) ==
  /\ Running(c)
  /\ Top(c).fn = "_execute" /\ Top(c).pc = "submit"
  /\ IF Top(c).cursor = Unbound
       THEN /\ Raise(c, "UnboundLocalError")
            /\ UNCHANGED log
       ELSE \E accepted \in BOOLEAN :
              /\ log' = Logged(c, Event("execute", Top(c).cursor, accepted,
                                        Top(c).query))
              /\ IF accepted
                   THEN /\ stack' = SetTop(c, [Top(c) EXCEPT !.pc = "return"])
                        /\ UNCHANGED <<status, result>>
                   ELSE Rejected(c)
  /\ UNCHANGED <<con, nextSession, options, op, last, planner, mapper>>

\* line 138: return cursor, to _fetchall (line 123) or to the facade
_execute_return(c) ==
  /\ Running(c)
  /\ Top(c).fn = "_execute" /\ Top(c).pc = "return"
  /\ LET rest == SubSeq(stack[c], 1, Len(stack[c]) - 1)
     IN  IF rest = <<>>
           THEN /\ stack' = [stack EXCEPT ![c] = <<>>]
                /\ op' = [op EXCEPT ![c].pc = "cursor",
                                    ![c].cursor = Top(c).cursor]
           ELSE /\ stack' = [stack EXCEPT
                               ![c] = [rest EXCEPT
                                         ![Len(rest)].pc = "fetch",
                                         ![Len(rest)].cursor = Top(c).cursor]]
                /\ UNCHANGED op
  /\ UNCHANGED <<con, nextSession, options, status, result, log, last,
                 planner, mapper>>

\* line 133 written as cursor = self._execute(query, retries=retries - 1)
CursorAfterRetry_bound(cursor) == cursor

\* line 133: the value of the recursive _fetchall is dropped, so the name
\* cursor of the enclosing _execute is still unbound at line 137
CursorAfterRetry(cursor) == Unbound

\* line 124: return cursor.fetchall(), to line 133 (which drops the rows and
\* falls through to line 137) or to the direct caller
_fetchall_return(c) ==
  /\ Running(c)
  /\ Top(c).fn = "_fetchall" /\ Top(c).pc = "fetch"
  /\ log' = Logged(c, Event("fetchall", Top(c).cursor, TRUE, <<>>))
  /\ LET rest == SubSeq(stack[c], 1, Len(stack[c]) - 1)
     IN  IF rest = <<>>
           THEN /\ stack' = [stack EXCEPT ![c] = <<>>]
                /\ status' = [status EXCEPT ![c] = "returned"]
                /\ result' = [result EXCEPT ![c] = RowsResult(Top(c).cursor)]
           ELSE /\ stack' = [stack EXCEPT
                               ![c] = [rest EXCEPT
                                         ![Len(rest)].pc = "submit",
                                         ![Len(rest)].cursor =
                                           CursorAfterRetry(Top(c).cursor)]]
                /\ UNCHANGED <<status, result>>
  /\ UNCHANGED <<con, nextSession, options, op, last, planner, mapper>>

\* ------------------------------------------------- after _execute returned
AtFacade(c, name) ==
  /\ status[c] = "running" /\ stack[c] = <<>>
  /\ op[c].name = name /\ op[c].pc = "cursor"

Finish(c, value) ==
  /\ status' = [status EXCEPT ![c] = "returned"]
  /\ result' = [result EXCEPT ![c] = value]
  /\ op' = [op EXCEPT ![c].pc = "done"]

\* the direct caller of _execute receives the cursor
call_execute_return(c) ==
  /\ AtFacade(c, "_execute")
  /\ Finish(c, CursorResult(op[c].cursor))
  /\ UNCHANGED <<con, nextSession, options, stack, log, last, planner, mapper>>

\* lines 106-108: rows = cursor.fetchall(); names from cursor.description
_fetch_from_cursor(cursor) ==
  [events |-> <<Event("fetchall", cursor, TRUE, <<>>),
                Event("description", cursor, TRUE, <<>>)>>,
   value |-> [NoResult EXCEPT !.kind = "DataFrame", !.cur = cursor]]

\* every unit replaces output, whatever its kind
NextOutput_every(query, fetched, output) ==
  IF query.kind = "Select" /\ query.result_handler
    THEN [fetched EXCEPT !.handled = TRUE] ELSE fetched

\* lines 83-87: only a ddl.Select unit replaces output
NextOutput(query, fetched, output) ==
  IF query.kind = "Select"
    THEN IF query.result_handler
           THEN [fetched EXCEPT !.handled = TRUE] ELSE fetched
    ELSE output

\* SQLConnection.execute, lines 82-89: the rest of one loop iteration, then
\* the next iteration up to its call of _execute, or the return
execute_fetch(c) ==
  /\ AtFacade(c, "execute")
  /\ UNCHANGED <<con, nextSession, options, last, planner, mapper>>
  /\ LET query == op[c].queries[op[c].i]
         fetched == _fetch_from_cursor(op[c].cursor)
         output == NextOutput(query, fetched.value, op[c].output)
         events == log[c] \o fetched.events
     IN  IF op[c].i < Len(op[c].queries)
           THEN /\ op' = [op EXCEPT ![c].i = @ + 1, ![c].output = output,
                                    ![c].pc = "call", ![c].cursor = Unbound]
                /\ Enter_execute(c, compile(op[c].queries[op[c].i + 1]),
                                 DefaultRetries, events)
                /\ UNCHANGED <<status, result>>
           ELSE /\ op' = [op EXCEPT ![c].output = output, ![c].pc = "done"]
                /\ status' = [status EXCEPT ![c] = "returned"]
                /\ result' = [result EXCEPT ![c] = output]
                /\ log' = [log EXCEPT ![c] = events]
                /\ UNCHANGED stack

\* create_table line 168 and drop_table line 187: the cursor is dropped
ddl_return(c) ==
  /\ \/ AtFacade(c, "create_table")
     \/ AtFacade(c, "drop_table")
  /\ Finish(c, NoResult)
  /\ UNCHANGED <<con, nextSession, options, stack, log, last, planner, mapper>>

\* lines 199 and 198 exchanged: the metadata read before the rows are drained
ProbeEvents_undrained(cursor) ==
  <<Event("description", cursor, TRUE, <<>>),
    Event("fetchall", cursor, TRUE, <<>>)>>

\* lines 198-199: the driver calls on the probe's cursor once _execute has
\* submitted the text: fetchall(), its rows dropped, then description
ProbeEvents(cursor) ==
  <<Event("fetchall", cursor, TRUE, <<>>),
    Event("description", cursor, TRUE, <<>>)>>

\* ImpalaConnection._get_schema_using_query, lines 197-200, returning through
\* table (lines 48-49) or sql (lines 67-68)
_get_schema_using_query(c) ==
  /\ \/ AtFacade(c, "table")
     \/ AtFacade(c, "sql")
  /\ \E descr \in ProbeDescrs :
       LET adapted == _adapt_types(descr)
       IN  /\ log' = [log EXCEPT ![c] = @ \o ProbeEvents(op[c].cursor)]
           /\ IF adapted.raised
                THEN /\ status' = [status EXCEPT ![c] = "KeyError"]
                     /\ result' = [result EXCEPT ![c] = NoResult]
                     /\ op' = [op EXCEPT ![c].pc = "done"]
                ELSE Finish(c, [NoResult EXCEPT !.kind = "TableExpr",
                                                !.cur = op[c].cursor,
                                                !.names = adapted.names,
                                                !.types = adapted.types])
  /\ UNCHANGED <<con, nextSession, options, stack, last, planner, mapper>>

\* --------------------------------------------------------------- the driver
\* the session behind the handle dies (timeout, server restart)
SessionDies ==
  /\ con.alive
  /\ con' = [con EXCEPT !.alive = FALSE]
  /\ UNCHANGED <<nextSession, options, stack, op, status, result, log, last,
                 planner, mapper>>

\* ------------------------------------------------------------------ planner
IdlePlanner ==
  [pc |-> "idle", expr |-> [table |-> FALSE, parts |-> <<>>, limits |-> <<>>],
   default_limit |-> None, out |-> <<>>, again |-> <<>>]

\* plan(expr, default_limit)
Plan ==
  /\ planner.pc = "input"
  /\ planner' = [planner EXCEPT
                   !.pc = "planned",
                   !.out = <<_build_ast_ensure_limit(planner.expr,
                                                     planner.default_limit)>>]
  /\ UNCHANGED <<con, nextSession, options, stack, op, status, result, log,
                 last, mapper>>

\* plan(expr', default_limit) on the expression the first call returned
Replan ==
  /\ planner.pc = "planned"
  /\ planner' = [planner EXCEPT
                   !.pc = "replanned",
                   !.again = <<_build_ast_ensure_limit(planner.out[1].expr,
                                                       planner.default_limit)>>]
  /\ UNCHANGED <<con, nextSession, options, stack, op, status, result, log,
                 last, mapper>>

\* ------------------------------------------------------------ type mapper
\* the driver type names cursor.description is drawn from: the ten names of
\* the table, other letter cases of some of them, and names the table lacks
DriverTypeNames ==
  DOMAIN _impala_type_mapping
    \cup {"INT", "BIGINT", "Decimal", "DECIMAL", "STRING", "Timestamp"}
    \cup {"varchar", "VARCHAR"}

\* precision and scale are reported for decimal columns only
DriverColumns ==
  {Column(n, t, None, None) :
     n \in {"a", "b"}, t \in {u \in DriverTypeNames : lower(u) # "decimal"}}
    \cup {Column(n, t, ps[1], ps[2]) :
            n \in {"a", "b"},
            t \in {u \in DriverTypeNames : lower(u) = "decimal"},
            ps \in {<<9, 2>>, <<38, 0>>}}

Descriptions == SeqsUpTo(DriverColumns, MaxCols) \cup {<<>>}

NoSchema == [raised |-> FALSE, names |-> <<>>, types |-> <<>>]

IdleMapper == [pc |-> "idle", descr |-> <<>>, out |-> NoSchema]

\* one call of _adapt_types on the drawn description
Map ==
  /\ mapper.pc = "input"
  /\ mapper' = [mapper EXCEPT !.pc = "done",
                              !.out = _adapt_types(mapper.descr)]
  /\ UNCHANGED <<con, nextSession, options, stack, op, status, result, log,
                 last, planner>>

\* ------------------------------------------------------------ specifications
\* __init__ (lines 113-116) has connected; no operation has run
InitConnection ==
  /\ con \in {[id |-> 1, alive |-> a] : a \in BOOLEAN}
  /\ nextSession = 1
  /\ stack = [c \in Callers |-> <<>>]
  /\ op = [c \in Callers |-> IdleOp]
  /\ status = [c \in Callers |-> "idle"]
  /\ result = [c \in Callers |-> NoResult]
  /\ log = [c \in Callers |-> <<>>]
  /\ last = [c \in Callers |-> FALSE]

Init ==
  /\ InitConnection
  /\ options \in Limits
  /\ planner = IdlePlanner
  /\ mapper = IdleMapper

Step(c) ==
  \/ call_execute(c)
  \/ call_fetchall(c)
  \/ table(c)
  \/ sql(c)
  \/ execute(c)
  \/ create_table(c)
  \/ drop_table(c)
  \/ _execute_cursor(c)
  \/ _connect(c)
  \/ _connect_store(c)
  \/ _execute_retry(c)
  \/ _fetchall(c)
  \/ _execute_submit(c)
  \/ _execute_return(c)
  \/ _fetchall_return(c)
  \/ call_execute_return(c)
  \/ execute_fetch(c)
  \/ ddl_return(c)
  \/ _get_schema_using_query(c)

\* one owner thread: the calls on the Connection are serialized
Next == Step(MainCaller) \/ SessionDies

Spec == Init /\ [][Next]_vars

\* calls of _execute and _fetchall alone, with any budget; the calling
\* thread keeps running: every driver call and every statement of the
\* methods returns or raises
ExecStep(c) ==
  \/ call_execute(c)
  \/ call_fetchall(c)
  \/ _execute_cursor(c)
  \/ _connect(c)
  \/ _connect_store(c)
  \/ _execute_retry(c)
  \/ _fetchall(c)
  \/ _execute_submit(c)
  \/ _execute_return(c)
  \/ _fetchall_return(c)
  \/ call_execute_return(c)

NextExec == ExecStep(MainCaller) \/ SessionDies

SpecExec == Init /\ [][NextExec]_vars /\ WF_vars(ExecStep(MainCaller))

\* the planner as a pure function of the expression, the default limit and
\* the configured option
InitPlan ==
  /\ InitConnection
  /\ options \in Limits
  /\ planner \in {[IdlePlanner EXCEPT !.pc = "input", !.expr = e,
                                      !.default_limit = d] :
                    e \in Exprs, d \in Limits \cup {None}}
  /\ mapper = IdleMapper

NextPlan == Plan \/ Replan

SpecPlan == InitPlan /\ [][NextPlan]_vars

\* two threads inside _execute on one connection whose session is dead; the
\* sessions db.connect hands out keep the state they were created in while
\* the two calls run
RaceCall(query, retries) ==
  [stack |-> <<Frame("_execute", query, retries, "cursor")>>,
   op |-> [Op("_execute", "call", <<>>, 0) EXCEPT !.retries = retries],
   log |-> <<Event("call", 1, TRUE, query)>>]

InitRace ==
  /\ con = [id |-> 1, alive |-> FALSE]
  /\ nextSession = 1
  /\ \E query \in DirectTexts,
        r1 \in 0..MaxRaceRetries, r2 \in 0..MaxRaceRetries :
       /\ stack = <<RaceCall(query, r1).stack, RaceCall(query, r2).stack>>
       /\ op = <<RaceCall(query, r1).op, RaceCall(query, r2).op>>
       /\ log = <<RaceCall(query, r1).log, RaceCall(query, r2).log>>
  /\ status = [c \in Callers |-> "running"]
  /\ result = [c \in Callers |-> NoResult]
  /\ last = [c \in Callers |-> FALSE]
  /\ options = 10
  /\ planner = IdlePlanner
  /\ mapper = IdleMapper

Race(c) ==
  \/ _execute_cursor(c)
  \/ _connect(c)
  \/ _connect_store(c)
  \/ _execute_retry(c)
  \/ _fetchall(c)
  \/ _execute_submit(c)
  \/ _execute_return(c)
  \/ _fetchall_return(c)
  \/ call_execute_return(c)

NextRace == \E c \in Callers : Race(c)

SpecRace == InitRace /\ [][NextRace]_vars

\* the type mapper as a pure function of cursor.description
InitTypes ==
  /\ InitConnection
  /\ options \in Limits
  /\ planner = IdlePlanner
  /\ mapper \in {[IdleMapper EXCEPT !.pc = "input", !.descr = d] :
                   d \in Descriptions}

NextTypes == Map

SpecTypes == InitTypes /\ [][NextTypes]_vars

\* ===================================================================== claims
Ended(c) == status[c] \notin {"idle", "running"}
Executor(c) == op[c].name \in {"_execute", "_fetchall"}

RECURSIVE HandleAt(_, _)
\* the session the handle referred to after the first n events of s
HandleAt(s, n) ==
  IF n = 0 THEN 0
  ELSE IF s[n].ev \in {"call", "connect"} THEN s[n].id
  ELSE HandleAt(s, n - 1)

\* C1: when cursor acquisition fails k times (1 <= k <= retries) and then
\* succeeds, and the engine accepts the text, _execute(query, retries)
\* returns a cursor on which the text was submitted, after exactly k
\* reconnects.
C1_RetryThenSucceed ==
  \A c \in Callers :
    LET s == CurLog(c)
        k == Cardinality(FailEvents(s, "cursor"))
    IN  (/\ op[c].name = "_execute" /\ Ended(c)
         /\ k >= 1 /\ k <= op[c].retries
         /\ OkEvents(s, "cursor") # {}
         /\ FailEvents(s, "execute") = {}
         /\ Count(s, "connect_error") = 0)
        => /\ status[c] = "returned"
           /\ result[c].kind = "cursor"
           /\ \E i \in OkEvents(s, "execute") :
                s[i].id = result[c].cur /\ s[i].text = s[1].text
           /\ Count(s, "connect") = k

\* C2: when every cursor acquisition raises the transient error (and every
\* reconnect yields a session), a call with retries = n never submits the
\* text, makes at most n + 1 acquisitions, and ends by raising the driver's
\* error after exactly n + 1 acquisitions and n reconnects.
C2_Exhaustion ==
  \A c \in Callers :
    LET s == CurLog(c)
    IN  (/\ Executor(c) /\ status[c] # "idle"
         /\ OkEvents(s, "cursor") = {}
         /\ Count(s, "connect_error") = 0)
        => /\ Count(s, "execute") = 0
           /\ Count(s, "cursor") <= op[c].retries + 1
           /\ Ended(c) => /\ status[c] = "DatabaseError"
                          /\ Count(s, "cursor") = op[c].retries + 1
                          /\ Count(s, "connect") = op[c].retries

\* the default budget is exhausted after four acquisitions
C2_Witness ==
  /\ op[MainCaller].name = "_execute"
  /\ op[MainCaller].retries = DefaultRetries
  /\ status[MainCaller] = "DatabaseError"
  /\ Count(CurLog(MainCaller), "cursor") = DefaultRetries + 1
  /\ OkEvents(CurLog(MainCaller), "cursor") = {}

\* C3: a rejected submission is the last driver operation of the call: the
\* SQL error reaches the caller, nothing is acquired, submitted or
\* reconnected after it, and the handle is the session it was at the
\* submission.
C3_SqlErrorPropagates ==
  \A c \in Callers :
    \A i \in FailEvents(log[c], "execute") :
      /\ i = Len(log[c])
      /\ status[c] = "SqlError"
      /\ stack[c] = <<>>
      /\ con.id = HandleAt(log[c], i)

\* a statement rejected on the cursor obtained after a reconnect
C3_Witness ==
  /\ status[MainCaller] = "SqlError"
  /\ FailEvents(log[MainCaller], "execute") # {}
  /\ Count(log[MainCaller], "connect") = 1

\* the driver is healthy during a call: every session it creates is alive and
\* stays alive, so only the handle left over from before fails
Healthy(s) ==
  /\ \A i \in Events(s, "connect") : s[i].ok
  /\ Count(s, "connect_error") = 0
  /\ FailEvents(s, "execute") = {}
  /\ \A i \in FailEvents(s, "cursor") : \A j \in 1..i : s[j].ev # "connect"

\* C4: after a call that exhausted its retries, a further call of _execute
\* on the same Connection with the default retry budget, made while the
\* driver is healthy, returns.
C4_UsableAfterExhaustion ==
  \A c \in Callers :
    (/\ last[c] /\ op[c].name = "_execute" /\ Ended(c)
     /\ op[c].retries = DefaultRetries
     /\ Healthy(CurLog(c)))
    => status[c] = "returned"

\* the cursor on which unit j of the executed plan was submitted
CursorOf(c, j) ==
  LET hits == {i \in OkEvents(log[c], "execute") :
                 log[c][i].text = compile(op[c].queries[j])}
  IN  IF hits = {} THEN Unbound ELSE log[c][CHOOSE i \in hits : TRUE].id

SelectUnits(queries) == {i \in 1..Len(queries) : queries[i].kind = "Select"}
Greatest(S) == CHOOSE i \in S : \A j \in S : j <= i
ReturnedPlan(c) ==
  op[c].name = "execute" /\ status[c] = "returned" /\ Len(op[c].queries) >= 2

\* C5 as stated: for a plan of two or more units, execute returns the
\* materialized cursor of the last unit (its handler applied if present),
\* whatever the kinds of the units.
C5_LastUnitResult ==
  \A c \in Callers :
    ReturnedPlan(c)
    => LET n == Len(op[c].queries)
       IN  /\ result[c].kind = "DataFrame"
           /\ result[c].cur = CursorOf(c, n)
           /\ result[c].handled = (/\ op[c].queries[n].kind = "Select"
                                   /\ op[c].queries[n].result_handler)

\* C5 amended: for a plan of two or more units, execute returns the
\* materialized cursor of the last SELECT unit of the plan (its handler
\* applied if present), and None when the plan has no SELECT unit.
C5_LastSelectResult ==
  \A c \in Callers :
    ReturnedPlan(c)
    => LET sel == SelectUnits(op[c].queries)
       IN  IF sel = {}
             THEN result[c] = NoResult
             ELSE /\ result[c].kind = "DataFrame"
                  /\ result[c].cur = CursorOf(c, Greatest(sel))
                  /\ result[c].handled =
                       op[c].queries[Greatest(sel)].result_handler

\* a returned plan whose last unit is not a SELECT and whose first is one
\* with a handler
C5_Witness ==
  /\ ReturnedPlan(MainCaller)
  /\ op[MainCaller].queries[Len(op[MainCaller].queries)].kind = "DDL"
  /\ op[MainCaller].queries[1].kind = "Select"
  /\ result[MainCaller].handled
  /\ result[MainCaller].cur # CursorOf(MainCaller, Len(op[MainCaller].queries))

Planned == planner.pc \in {"planned", "replanned"}
AllLimited(queries) ==
  \A i \in SelectUnits(queries) : queries[i].limit # None
NoneLimited(queries) ==
  \A i \in SelectUnits(queries) : queries[i].limit = None

\* C6: planning with a default limit an expression all of whose SELECT units
\* already carry a limit compiles once and returns the expression and the
\* limits unchanged.
C6_LimitedUnchanged ==
  (/\ Planned
   /\ planner.default_limit # None
   /\ AllLimited(build_ast(planner.expr).queries))
  => /\ planner.out[1].compiles = 1
     /\ planner.out[1].expr = planner.expr
     /\ planner.out[1].ast = build_ast(planner.expr)

\* a table expression with a limited SELECT and another unit, planned with
\* a default limit
C6_Witness ==
  /\ Planned
  /\ planner.default_limit # None
  /\ planner.expr.table
  /\ Len(planner.expr.parts) = 2
  /\ \E i \in 1..2 : planner.expr.parts[i].kind = "DDL"
  /\ \E i \in 1..2 : planner.expr.parts[i].limit = 5
  /\ AllLimited(build_ast(planner.expr).queries)
  /\ planner.out[1].compiles = 1

\* C7: planning a table expression without any limit with default_limit = d
\* yields a plan whose SELECT units have limit d, whatever the configured
\* option is.
C7_LimitIsArgument ==
  (/\ Planned
   /\ planner.default_limit # None
   /\ planner.expr.table
   /\ NoneLimited(build_ast(planner.expr).queries))
  => \A i \in SelectUnits(planner.out[1].ast.queries) :
       planner.out[1].ast.queries[i].limit = planner.default_limit

\* C8: planning again the expression a planning returned, with the same
\* default limit, compiles once and returns the same plan and expression.
C8_ReplanIdentical ==
  planner.pc = "replanned"
  => /\ planner.again[1].ast = planner.out[1].ast
     /\ planner.again[1].expr = planner.out[1].expr
     /\ planner.again[1].compiles = 1

\* the first planning rewrote the expression for two SELECT units
C8_Witness ==
  /\ planner.pc = "replanned"
  /\ Len(planner.out[1].expr.limits) = 2
  /\ planner.out[1].compiles = 3
  /\ planner.again[1].expr = planner.out[1].expr

LimitClauses(text) == {i \in 1..Len(text) : text[i] = "LIMIT"}

\* C9: every probe text sql() submits has exactly one limiting clause, at
\* its end, bounding the result to zero rows.
C9_OneZeroLimit ==
  \A c \in Callers :
    op[c].name = "sql"
    => \A i \in Events(log[c], "execute") :
         LET text == log[c][i].text
         IN  /\ Cardinality(LimitClauses(text)) = 1
             /\ text[Len(text) - 1] = "LIMIT"
             /\ text[Len(text)] = Format(0)

\* C10: table(name, database) with a database other than None raises
\* NotImplementedError and touches neither the driver nor the handle's
\* session; nothing is returned.
C10_DatabaseRejected ==
  \A c \in Callers :
    (op[c].name = "table" /\ op[c].args[2] # NoneStr)
    => /\ status[c] = "NotImplementedError"
       /\ log[c] = <<>>
       /\ result[c] = NoResult

\* rejected on a Connection whose session is dead, after an earlier
\* operation failed
C10_Witness ==
  /\ op[MainCaller].name = "table"
  /\ op[MainCaller].args[2] = ""
  /\ status[MainCaller] = "NotImplementedError"
  /\ ~con.alive
  /\ last[MainCaller]

\* the spellings of a table key among the driver type names
Spellings(key) ==
  {key} \cup (CASE key = "int" -> {"INT"}
               [] key = "bigint" -> {"BIGINT"}
               [] key = "decimal" -> {"Decimal", "DECIMAL"}
               [] key = "string" -> {"STRING"}
               [] key = "timestamp" -> {"Timestamp"}
               [] OTHER -> {})

TableKeys ==
  {"boolean", "tinyint", "smallint", "int", "bigint", "float", "double",
   "string", "timestamp", "decimal"}

InTable(typename) == \E key \in TableKeys : typename \in Spellings(key)

\* the logical type the table gives a driver type name
TableType(col) ==
  LET key == CHOOSE k \in TableKeys : col.type \in Spellings(k)
  IN  CASE key = "tinyint" -> LogicalType("int8", None, None)
        [] key = "smallint" -> LogicalType("int16", None, None)
        [] key = "int" -> LogicalType("int32", None, None)
        [] key = "bigint" -> LogicalType("int64", None, None)
        [] key = "decimal" -> LogicalType("decimal", col.precision, col.scale)
        [] OTHER -> LogicalType(key, None, None)

Mapped == mapper.pc = "done"

\* C11: _adapt_types on a description holding a column whose type name is
\* not in the table, at whatever position, raises and returns no schema, not
\* even the columns before it; the unknown name is never given a default
\* type.
C11_UnknownTypeRaises ==
  (Mapped /\ \E i \in 1..Len(mapper.descr) : ~InTable(mapper.descr[i].type))
  => /\ mapper.out.raised
     /\ mapper.out.names = <<>>
     /\ mapper.out.types = <<>>

\* the unknown name comes second, after a column the table knows
C11_Witness ==
  /\ Mapped
  /\ Len(mapper.descr) = 2
  /\ InTable(mapper.descr[1].type)
  /\ mapper.descr[2].type = "VARCHAR"
  /\ mapper.out.raised

\* C12: for a description whose type names are all in the table, in any
\* letter case, _adapt_types returns names and types of the description's
\* length and order, every type the table's type for the column, with
\* nothing reordered or merged; a decimal column gets the decimal type of
\* exactly its own precision and scale.
C12_SchemaFollowsDescription ==
  (Mapped /\ \A i \in 1..Len(mapper.descr) : InTable(mapper.descr[i].type))
  => /\ ~mapper.out.raised
     /\ Len(mapper.out.names) = Len(mapper.descr)
     /\ Len(mapper.out.types) = Len(mapper.descr)
     /\ \A i \in 1..Len(mapper.descr) :
          /\ mapper.out.names[i] = mapper.descr[i].name
          /\ mapper.out.types[i] = TableType(mapper.descr[i])

\* two columns of one name, upper-case type names, a decimal among them
C12_Witness ==
  /\ Mapped
  /\ mapper.descr = <<Column("a", "DECIMAL", 9, 2),
                      Column("a", "BIGINT", None, None)>>
  /\ mapper.out.names = <<"a", "a">>
  /\ mapper.out.types = <<LogicalType("decimal", 9, 2),
                          LogicalType("int64", None, None)>>

Probing(c) == op[c].name \in {"table", "sql"}

\* the probe text: what table (line 191) or sql (line 65) handed to _execute
ProbeText(c) == log[c][1].text

\* C13: in every schema probe, of a table name or of a raw query, the
\* driver sees the probe text submitted, then all rows fetched, then the
\* column metadata read, in that order on one cursor; the metadata is never
\* read from a cursor whose rows have not been fetched.
C13_ProbeOrder ==
  \A c \in Callers :
    Probing(c)
    => \A k \in Events(log[c], "description") :
         \E i \in OkEvents(log[c], "execute"), j \in Events(log[c], "fetchall") :
           /\ i < j /\ j < k
           /\ log[c][i].id = log[c][k].id
           /\ log[c][j].id = log[c][k].id
           /\ log[c][i].text = ProbeText(c)

\* a raw-query probe that returned its schema
C13_Witness ==
  /\ op[MainCaller].name = "sql"
  /\ status[MainCaller] = "returned"
  /\ result[MainCaller].kind = "TableExpr"
  /\ Events(log[MainCaller], "description") # {}

\* the statement text a call of create_table handed to _execute
CreateText(c) == log[c][1].text

\* C14: the statement create_table submits is the CTAS built from the first
\* unit of the compiled plan and the compilation context, and carries all
\* four of the caller's table_name, database, format and overwrite; none of
\* them is dropped or replaced by a default.
C14_AllFourArguments ==
  \A c \in Callers :
    op[c].name = "create_table"
    => CreateText(c) = CTAS(op[c].args[1], op[c].queries[1], <<"context">>,
                            op[c].args[2], op[c].args[3],
                            op[c].args[4] = "True")

\* the sessions db.connect has returned to caller c during its call
Connects(c) == Events(log[c], "connect")

\* caller c has reconnected and none of its assignments to self.con is
\* still pending
Reconnected(c) ==
  /\ Connects(c) # {}
  /\ \A k \in 1..Len(stack[c]) : stack[c][k].pc # "store"

\* C15: with two callers inside _execute on one connection whose session is
\* dead, both reconnecting, under every interleaving self.con always refers
\* to a session db.connect has completely created, the old one or a new one,
\* never to nothing; a failed cursor() was called on such a session; and
\* once both callers have stored their new sessions self.con refers to one
\* of them, alive as the driver created it.
C15_HandleAlwaysWhole ==
  /\ con # NoSession
  /\ con.id \in 1..nextSession
  /\ \A c \in Callers :
       \A i \in FailEvents(log[c], "cursor") : log[c][i].id \in 1..nextSession
  /\ (\A c \in Callers : Reconnected(c))
     => \E c \in Callers :
          \E i \in Connects(c) :
            /\ con.id = log[c][i].id
            /\ con.alive = log[c][i].ok

\* both callers saw the dead session and reconnected; the second caller's
\* session was stored first and the first caller's store replaced it
C15_Witness ==
  /\ \A c \in Callers : Reconnected(c)
  /\ \E i \in Connects(1) : log[1][i].id = 2 /\ log[1][i].ok
  /\ \E i \in Connects(2) : log[2][i].id = 3 /\ log[2][i].ok
  /\ \A c \in Callers :
       \E i \in FailEvents(log[c], "cursor") : log[c][i].id = 1
  /\ con = [id |-> 2, alive |-> TRUE]

\* the submissions of caller c, in the order the driver saw them
Submissions(c) == SelectSeq(log[c], LAMBDA e : e.ev = "execute")

\* C16: a call of execute that returns has submitted every unit of the
\* plan exactly once, in plan order, and has fetched rows and read column
\* metadata from the cursor of the last unit only; the cursors of the
\* units before it are neither fetched nor read for metadata.
C16_OnlyLastMaterialized ==
  \A c \in Callers :
    (op[c].name = "execute" /\ status[c] = "returned")
    => LET n == Len(op[c].queries)
           sub == Submissions(c)
       IN  /\ Len(sub) = n
           /\ \A i \in 1..n :
                sub[i].ok /\ sub[i].text = compile(op[c].queries[i])
           /\ \A k \in Events(log[c], "fetchall")
                       \cup Events(log[c], "description") :
                log[c][k].id = sub[n].id

\* the budget the current call of _execute was given
Budget(c) == IF stack[c] = <<>> THEN op[c].retries ELSE stack[c][1].retries

ExecuteFrames(c) == {k \in 1..Len(stack[c]) : stack[c][k].fn = "_execute"}

\* every recursive attempt runs on a smaller budget than the attempt that
\* made it, and no frame has more than the call was given
BudgetDecreases(c) ==
  /\ \A k \in 1..Len(stack[c]) :
       stack[c][k].retries >= 0 /\ stack[c][k].retries <= Budget(c)
  /\ \A j, k \in ExecuteFrames(c) :
       j < k => stack[c][k].retries < stack[c][j].retries

WithinBudget(c) ==
  /\ Count(CurLog(c), "cursor") <= Budget(c) + 1
  /\ Count(CurLog(c), "connect") + Count(CurLog(c), "connect_error")
       <= Budget(c)
  /\ BudgetDecreases(c)

\* C17: whatever the driver does at each step, a call of _execute with
\* retries = n ends, having acquired a cursor at most n + 1 times and
\* reconnected at most n times; each recursive attempt has a strictly
\* smaller budget than the one before and the budget is never raised again
\* within the call.
C17_BoundedRetries ==
  /\ [](\A c \in Callers : status[c] # "idle" => WithinBudget(c))
  /\ (status[MainCaller] = "running") ~> (status[MainCaller] # "running")

\* a call given the largest budget that used all of it
C17_Witness ==
  /\ op[MainCaller].name = "_execute"
  /\ op[MainCaller].retries = MaxRetries
  /\ Ended(MainCaller)
  /\ Count(CurLog(MainCaller), "cursor") = MaxRetries + 1
  /\ Count(CurLog(MainCaller), "connect") = MaxRetries

\* the driver accepted the text during the current call of _execute
Accepted(c) == OkEvents(CurLog(c), "execute") # {}

\* C18: when the driver has accepted the submitted text during a call of
\* _execute, reconnections and retries included, that call returns a cursor
\* and does not raise; create_table, drop_table and execute therefore never
\* end in an error for a statement the engine has run.
C18_AcceptedMeansReturned ==
  \A c \in Callers :
    /\ (op[c].name = "_execute" /\ Ended(c) /\ Accepted(c))
       => status[c] = "returned" /\ result[c].kind = "cursor"
    /\ (/\ op[c].name \in {"create_table", "drop_table", "execute"}
        /\ Ended(c) /\ Accepted(c))
       => status[c] = "returned"

\* C19: within one call of _execute the text is submitted to the driver at
\* most once, however many acquisitions fail and reconnections happen; a
\* create-table-as-select or drop-table statement is never run twice by
\* one call.
C19_SubmittedAtMostOnce ==
  \A c \in Callers :
    status[c] # "idle" => Count(CurLog(c), "execute") <= 1

\* a create_table whose statement was accepted once, after a reconnection
C19_Witness ==
  /\ op[MainCaller].name = "create_table"
  /\ Ended(MainCaller)
  /\ Count(CurLog(MainCaller), "connect") >= 1
  /\ Cardinality(OkEvents(CurLog(MainCaller), "execute")) = 1

====
